---- MODULE Spec2Model ----
(***************************************************************************)
(* Ledger core of the account router (server/routers/account.ts):          *)
(* createAccount and fundAccount as concurrent request handlers over one   *)
(* shared store.  Every `await db...` of a handler is one atomic store     *)
(* step; handlers of different requests interleave between their steps.    *)
(*                                                                         *)
(* Money is counted in thousandths of a dollar, so that the smallest       *)
(* accepted amount (0.01) is 10 and an amount with a fraction of a cent    *)
(* (0.015) is representable.                                                *)
(*                                                                         *)
(* Fault model of the store: a write may throw a persistence error that is *)
(* not a uniqueness violation, and the confirmatory read that follows a    *)
(* write may come back empty.                                              *)
(*                                                                         *)
(* A request that has returned keeps its inputs and its response; the      *)
(* handler's locals are gone with its frame.                               *)
(***************************************************************************)
EXTENDS Integers, Sequences, FiniteSets, TLC

\* ---- bounds of the model ----
NumProcs == 2
NumCandidates == 2
MaxClock == 2

\* ---- program constants ----
MAX_RETRIES == 5
MinAccountNumber == 1000000000
MinAmount == 10
EXPIRY_BUFFER_MS == 60000
\* the form's upper limit of an amount, 10000 dollars
MaxAmount == 10000000
\* the values of a JavaScript number that are not finite
PosInfinity == 2000000000
NegInfinity == -2000000000
NaN == -2000000001

Procs == 1..NumProcs
Users == {1, 2}
AccountTypes == {"checking", "savings"}
\* amounts a request may carry: 0 (rejected), 0.01 and 0.015
Amounts == {0, 10, 15}
\* account ids a request may name: existing or not
AccountIds == 1..2
\* the requests of the input runs
InputProcs == {1, 2}
\* the requests of the ledger runs
LedgerProcs == {1, 2}

\* ---- state ----
VARIABLES accounts, transactions, now, pc, call, sessions

vars == <<accounts, transactions, now, pc, call, sessions>>

NoRow == [id |-> 0]
NoSource == [type |-> "none", accountNumber |-> <<>>, routingNumber |-> <<>>]

IdleCall ==
  [op |-> "none", user |-> 0, accountType |-> "none", accountId |-> 0,
   amount |-> 0, source |-> NoSource,
   retries |-> 0, accountNumber |-> 0, accountCreated |-> FALSE,
   seen |-> NoRow,
   code |-> "none", message |-> "none",
   account |-> NoRow, transaction |-> NoRow, newBalance |-> 0,
   attempts |-> 0, pairCollided |-> FALSE,
   insertedId |-> 0, insertedTx |-> 0, incremented |-> FALSE,
   readEmpty |-> FALSE,
   result |-> <<>>, reads |-> 0,
   token |-> 0, lifetime |-> 0, sessionDeleted |-> FALSE, success |-> FALSE,
   found |-> FALSE, remaining |-> 0,
   text |-> <<>>]

\* what is left of a request once its handler has returned or thrown
Returned(c) ==
  [c EXCEPT !.retries = 0, !.accountNumber = 0, !.accountCreated = FALSE,
            !.seen = NoRow, !.attempts = 0]

\* ---- generateAccountNumber ----
\* the values crypto.randomInt may return; the model draws from the first
\* NumCandidates of them so that collisions happen
Candidates == MinAccountNumber..(MinAccountNumber + NumCandidates - 1)

\* ---- store ----
Rows(seq) == {seq[i] : i \in 1..Len(seq)}

\* the existence check left out
AccountOfTypeSkipped(u, t) == NoRow

\* select ... where userId = u and accountType = t .get()
AccountOfType(u, t) ==
  LET hits == {a \in Rows(accounts) : a.userId = u /\ a.accountType = t}
  IN IF hits = {} THEN NoRow ELSE CHOOSE a \in hits : \A b \in hits : a.id <= b.id

\* select ... where accountNumber = n .get()
AccountByNumber(n) ==
  LET hits == {a \in Rows(accounts) : a.accountNumber = n}
  IN IF hits = {} THEN NoRow ELSE CHOOSE a \in hits : \A b \in hits : a.id <= b.id

\* no uniqueness constraint on the number
NumberTakenNever(n) == FALSE

\* UNIQUE constraint on accounts.account_number
NumberTaken(n) == \E a \in Rows(accounts) : a.accountNumber = n

\* no constraint on the pair
PairTakenNever(u, t) == FALSE

\* the store's one-account-per-(user, type) constraint
PairTaken(u, t) == \E a \in Rows(accounts) : a.userId = u /\ a.accountType = t

\* status left to the column default
NewAccountRowDefaultStatus(u, n, t) ==
  [id |-> Len(accounts) + 1, userId |-> u, accountNumber |-> n,
   accountType |-> t, balance |-> 0, status |-> "pending"]

\* the row an insert of createAccount writes; id is the store's autoincrement
NewAccountRow(u, n, t) ==
  [id |-> Len(accounts) + 1, userId |-> u, accountNumber |-> n,
   accountType |-> t, balance |-> 0, status |-> "active"]

\* no error counts as a collision
IsUniqueViolationNever(err) == FALSE

\* error.code === 'SQLITE_CONSTRAINT_UNIQUE' || message includes 'UNIQUE constraint failed'
IsUniqueViolation(err) == err \in {"unique_number", "unique_pair"}

\* outcome of the insert, as the store reports it
InsertOutcome(u, n, t) ==
  IF NumberTaken(n) THEN "unique_number"
  ELSE IF PairTaken(u, t) THEN "unique_pair"
  ELSE "ok"

\* the store as the verification script has it before its concurrent calls:
\* one user holds a checking account, created by an earlier createAccount
\* call that drew a number outside the candidates of this run
SeedAccounts ==
  <<[id |-> 1, userId |-> 1, accountNumber |-> MinAccountNumber + NumCandidates,
     accountType |-> "checking", balance |-> 0, status |-> "active"]>>

\* the same store after the account has been deactivated
SeedDeactivated ==
  <<[SeedAccounts[1] EXCEPT !.status = "inactive"]>>

Init ==
  /\ accounts = SeedAccounts
  /\ transactions = <<>>
  /\ now = 0
  /\ pc = [p \in Procs |-> "idle"]
  /\ call = [p \in Procs |-> IdleCall]
  /\ sessions = {}

Finish(p, code, message) ==
  /\ pc' = [pc EXCEPT ![p] = "done"]
  /\ call' = [call EXCEPT ![p] =
         Returned([call[p] EXCEPT !.code = code, !.message = message])]

\* requests are interchangeable: request p arrives after request p - 1
MayStart(p) == pc[p] = "idle" /\ \A q \in Procs : q < p => pc[q] # "idle"

\* ---- createAccount ----
CreateStart(p) ==
  /\ MayStart(p)
  /\ \E u \in Users, t \in AccountTypes :
       call' = [call EXCEPT ![p].op = "createAccount", ![p].user = u,
                            ![p].accountType = t]
  /\ pc' = [pc EXCEPT ![p] = "c_check"]
  /\ UNCHANGED <<accounts, transactions, now, sessions>>

CreateCheck(p) ==
  /\ pc[p] = "c_check"
  /\ IF AccountOfType(call[p].user, call[p].accountType) # NoRow
     THEN Finish(p, "CONFLICT", "already_have_account")
     ELSE /\ pc' = [pc EXCEPT ![p] = "c_insert"]
          /\ UNCHANGED call
  /\ UNCHANGED <<accounts, transactions, now, sessions>>

\* the loop bound off by one, either way
LoopContinuesOneShort(created, retries) == ~created /\ retries < MAX_RETRIES - 1
LoopContinuesOneMore(created, retries) == ~created /\ retries <= MAX_RETRIES

\* while (!accountCreated && retries < MAX_RETRIES)
LoopContinues(created, retries) == ~created /\ retries < MAX_RETRIES

\* a placeholder account returned when the read comes back empty
CreateResultFallback(row) ==
  IF row = NoRow
  THEN [code |-> "OK", message |-> "none",
        account |-> [id |-> 0, userId |-> 0, accountNumber |-> 0,
                     accountType |-> "none", balance |-> 100,
                     status |-> "pending"]]
  ELSE [code |-> "OK", message |-> "none", account |-> row]

\* after the loop and the re-read: what createAccount gives back for the row
\* that `select ... where accountNumber = ...` returned
CreateResult(row) ==
  IF row = NoRow
  THEN [code |-> "INTERNAL_SERVER_ERROR", message |-> "failed_to_retrieve",
        account |-> NoRow]
  ELSE [code |-> "OK", message |-> "none", account |-> row]

\* what an insert attempt can come back with: the store's verdict on the
\* row, or a persistence error that is not a uniqueness violation
InsertErrors(u, n, t) == {InsertOutcome(u, n, t), "io_error"}

\* one iteration of the optimistic loop: generate, insert, classify the error.
\* accountNumber is assigned before every insert and read only after a
\* successful one, so the candidate of a failed attempt is not kept.
CreateInsert(p) ==
  /\ pc[p] = "c_insert"
  /\ \E n \in Candidates :
     \E err \in InsertErrors(call[p].user, n, call[p].accountType) :
       LET c == call[p]
           tried == [c EXCEPT !.attempts = c.attempts + 1]
       IN
       IF err = "ok"
       THEN /\ accounts' = Append(accounts, NewAccountRow(c.user, n, c.accountType))
            /\ pc' = [pc EXCEPT ![p] = "c_read"]
            /\ call' = [call EXCEPT ![p] =
                   [tried EXCEPT !.accountNumber = n, !.accountCreated = TRUE,
                                 !.insertedId = Len(accounts) + 1]]
       ELSE IF IsUniqueViolation(err)
       THEN LET r == c.retries + 1
                counted == [tried EXCEPT
                   !.retries = r,
                   !.pairCollided = @ \/ err = "unique_pair"]
            IN /\ UNCHANGED accounts
               /\ IF LoopContinues(c.accountCreated, r)
                  THEN /\ pc' = pc
                       /\ call' = [call EXCEPT ![p] = counted]
                  ELSE /\ pc' = [pc EXCEPT ![p] = "done"]
                       /\ call' = [call EXCEPT ![p] =
                             Returned([counted EXCEPT
                                !.code = "INTERNAL_SERVER_ERROR",
                                !.message = "failed_to_generate_unique"])]
       ELSE \* any other error is rethrown
            /\ UNCHANGED accounts
            /\ pc' = [pc EXCEPT ![p] = "done"]
            /\ call' = [call EXCEPT ![p] =
                   Returned([tried EXCEPT !.code = "STORE_ERROR", !.message = err])]
  /\ UNCHANGED <<transactions, now, sessions>>

\* fetch the created account by its number and return it
CreateRead(p) ==
  /\ pc[p] = "c_read"
  /\ \E row \in {AccountByNumber(call[p].accountNumber), NoRow} :
       LET res == CreateResult(row)
       IN call' = [call EXCEPT ![p] =
              Returned([call[p] EXCEPT !.code = res.code, !.message = res.message,
                                       !.account = res.account,
                                       !.readEmpty = (row = NoRow)])]
  /\ pc' = [pc EXCEPT ![p] = "done"]
  /\ UNCHANGED <<accounts, transactions, now, sessions>>

\* ---- fundAccount: input schema ----
\* a string is a sequence of characters; 0..9 are the digits, NonDigit any other
NonDigit == 10

\* cardNumber.replace(/\D/g, "")
DigitsOf(str) == SelectSeq(str, LAMBDA ch : ch < NonDigit)

RECURSIVE LuhnSum(_, _, _)
\* the loop of isValidLuhn, from index i down to 1
LuhnSum(digits, i, isEven) ==
  IF i = 0 THEN 0
  ELSE LET d == digits[i]
           doubled == IF isEven THEN (IF 2 * d > 9 THEN 2 * d - 9 ELSE 2 * d) ELSE d
       IN doubled + LuhnSum(digits, i - 1, ~isEven)

\* the loop doubling the last digit, the third from last, ...
isValidLuhnDoublingLast(cardNumber) ==
  LET digits == DigitsOf(cardNumber)
  IN LuhnSum(digits, Len(digits), TRUE) % 10 = 0

isValidLuhn(cardNumber) ==
  LET digits == DigitsOf(cardNumber)
  IN LuhnSum(digits, Len(digits), FALSE) % 10 = 0

\* a routing number only has to be there
RoutingOkPresent(routingNumber) == Len(routingNumber) > 0

\* !!data.routingNumber && /^\d{9}$/.test(data.routingNumber)
RoutingOk(routingNumber) ==
  /\ Len(routingNumber) = 9
  /\ \A i \in 1..Len(routingNumber) : routingNumber[i] < NonDigit

\* ---- detectCardType, isValidCardType ----
StartsWith(digits, prefix) ==
  /\ Len(digits) >= Len(prefix)
  /\ \A i \in 1..Len(prefix) : digits[i] = prefix[i]

RECURSIVE DecimalValue(_)
DecimalValue(digits) ==
  IF Len(digits) = 0 THEN 0
  ELSE 10 * DecimalValue(SubSeq(digits, 1, Len(digits) - 1)) + digits[Len(digits)]

\* parseInt(digits.substring(0, k)): NaN on the empty string
PrefixValue(digits, k) ==
  IF Len(digits) = 0 THEN NaN
  ELSE DecimalValue(SubSeq(digits, 1, IF Len(digits) < k THEN Len(digits) ELSE k))

\* the ends of the range left out
InRangeExclusive(v, lo, hi) == v # NaN /\ v > lo /\ v < hi

InRange(v, lo, hi) == v # NaN /\ v >= lo /\ v <= hi

detectCardType(cardNumber) ==
  LET digits == DigitsOf(cardNumber)
      first4 == PrefixValue(digits, 4)
      first6 == PrefixValue(digits, 6)
      first3 == PrefixValue(digits, 3)
  IN IF StartsWith(digits, <<4>>) THEN "visa"
     ELSE IF \E d \in 1..5 : StartsWith(digits, <<5, d>>) THEN "mastercard"
     ELSE IF InRange(first4, 2221, 2720) THEN "mastercard"
     ELSE IF (StartsWith(digits, <<3, 4>>) \/ StartsWith(digits, <<3, 7>>))
             /\ Len(digits) = 15 THEN "amex"
     ELSE IF StartsWith(digits, <<6, 0, 1, 1>>) THEN "discover"
     ELSE IF InRange(first6, 622126, 622925) THEN "discover"
     ELSE IF InRange(first3, 644, 649) THEN "discover"
     ELSE IF StartsWith(digits, <<6, 5>>) THEN "discover"
     ELSE "null"

isValidCardType(cardNumber) == detectCardType(cardNumber) # "null"

\* the two refinements of the fundingSource schema
FundingSourceOk(src) ==
  /\ src.type = "bank" => RoutingOk(src.routingNumber)
  /\ src.type = "card" => isValidLuhn(src.accountNumber)

\* the lower limit taken from the form, which lets 0 through
AmountOkNonNegative(amount) == amount # NaN /\ amount >= 0

\* z.number().min(0.01): a number that is not NaN and is at least 0.01;
\* nothing in the schema bounds it from above or asks for it to be finite
AmountOk(amount) == amount # NaN /\ amount >= MinAmount

\* parseFloat(input.amount.toString()): the shortest decimal text of a number
\* reads back as the same number, Infinity included
ParsedAmount(amount) == amount

FundingSources ==
  {[type |-> "card", accountNumber |-> <<4,2,4,2,4,2,4,2,4,2,4,2,4,2,4,2>>,
    routingNumber |-> <<>>],
   [type |-> "card", accountNumber |-> <<4,2,4,2,4,2,4,2,4,2,4,2,4,2,4,1>>,
    routingNumber |-> <<>>],
   [type |-> "bank", accountNumber |-> <<1,2,3,4,5,6,7,8,9>>,
    routingNumber |-> <<0,2,1,0,0,0,0,2,1>>],
   [type |-> "bank", accountNumber |-> <<1,2,3,4,5,6,7,8,9>>,
    routingNumber |-> <<>>]}

\* amounts of the input runs: not a number, the infinities, a negative amount,
\* 0, 0.005, 0.01, 0.015, 10000, 10000.01
InputAmounts ==
  {NaN, NegInfinity, -MinAmount, 0, 5, MinAmount, 15, MaxAmount,
   MaxAmount + MinAmount, PosInfinity}

\* funding sources of the input runs: those above, a card number that passes
\* the Luhn check under no network's prefix, an empty card number, and
\* routing numbers of 8 and 10 digits and of 9 characters with a letter
InputSources ==
  FundingSources \cup
  {[type |-> "card", accountNumber |-> <<7,9,9,2,7,3,9,8,7,1,3>>,
    routingNumber |-> <<>>],
   [type |-> "card", accountNumber |-> <<>>, routingNumber |-> <<>>],
   [type |-> "bank", accountNumber |-> <<1,2,3,4,5,6,7,8,9>>,
    routingNumber |-> <<0,2,1,0,0,0,0,2>>],
   [type |-> "bank", accountNumber |-> <<1,2,3,4,5,6,7,8,9>>,
    routingNumber |-> <<0,2,1,0,0,0,0,2,1,0>>],
   [type |-> "bank", accountNumber |-> <<1,2,3,4,5,6,7,8,9>>,
    routingNumber |-> <<0,2,1,0,0,0,0,2,NonDigit>>]}

\* ---- fundAccount: store ----
\* the lookup by id alone
AccountOfUserAnyOwner(accountId, u) ==
  LET hits == {a \in Rows(accounts) : a.id = accountId}
  IN IF hits = {} THEN NoRow ELSE CHOOSE a \in hits : TRUE

\* select ... where id = accountId and userId = u .get()
AccountOfUser(accountId, u) ==
  LET hits == {a \in Rows(accounts) : a.id = accountId /\ a.userId = u}
  IN IF hits = {} THEN NoRow ELSE CHOOSE a \in hits : TRUE

\* select ... where id = accountId .get()
AccountById(accountId) ==
  LET hits == {a \in Rows(accounts) : a.id = accountId}
  IN IF hits = {} THEN NoRow ELSE CHOOSE a \in hits : TRUE

\* the row the insert of fundAccount writes (description, a display text
\* derived from the funding source type, is left out)
NewTransactionRow(accountId, amount) ==
  [id |-> Len(transactions) + 1, accountId |-> accountId, type |-> "deposit",
   amount |-> amount, status |-> "completed", createdAt |-> now]

\* a store that subtracts
PlusAsDebit(a, b) == a - b

\* the store's addition: an infinite term makes the sum infinite
Plus(a, b) == IF a = PosInfinity \/ b = PosInfinity THEN PosInfinity ELSE a + b

\* the sum computed by the handler from the balance it read
NewBalanceReadModifyWrite(current, seen, amount) == seen + amount

\* balance = balance + amount, evaluated by the store on the current row;
\* seen is the balance the handler read when it verified ownership
NewBalance(current, seen, amount) == Plus(current, amount)

\* the update rewriting the table to the rows it matched
IncrementBalanceReplacingTable(accountId, seen, amount) ==
  LET hit == SelectSeq(accounts, LAMBDA a : a.id = accountId)
  IN [i \in 1..Len(hit) |->
        [hit[i] EXCEPT !.balance = NewBalance(@, seen, amount)]]

\* the update without its where clause
IncrementBalanceEveryRow(accountId, seen, amount) ==
  [i \in 1..Len(accounts) |->
     [accounts[i] EXCEPT !.balance = NewBalance(@, seen, amount)]]

\* update accounts set balance = ... where id = accountId
IncrementBalance(accountId, seen, amount) ==
  [i \in 1..Len(accounts) |->
     IF accounts[i].id = accountId
     THEN [accounts[i] EXCEPT !.balance = NewBalance(@, seen, amount)]
     ELSE accounts[i]]

\* the rows `order by created_at desc limit 1` may return: created_at is the
\* only sort key, so any row with the greatest created_at
MostRecent(accountId) ==
  LET rows == {t \in Rows(transactions) : t.accountId = accountId}
  IN {t \in rows : \A o \in rows : o.createdAt <= t.createdAt}

\* updatedAccount?.balance ?? 0
BalanceOrZero(row) == IF row = NoRow THEN 0 ELSE row.balance

\* the input schema runs before the handler: a rejected input never reaches
\* the caller identity or the account id.  A run over the inputs keeps the
\* funding source of the request; the handler itself reads only its type.
FundStartWith(p, amounts, sources, keep) ==
  /\ MayStart(p)
  /\ \E amount \in amounts, src \in sources :
       IF AmountOk(amount) /\ FundingSourceOk(src)
       THEN \E u \in Users, id \in AccountIds :
              /\ pc' = [pc EXCEPT ![p] = "f_check"]
              /\ call' = [call EXCEPT ![p].op = "fundAccount", ![p].user = u,
                                      ![p].accountId = id,
                                      ![p].amount = ParsedAmount(amount),
                                      ![p].source = IF keep THEN src ELSE NoSource]
       ELSE /\ pc' = [pc EXCEPT ![p] = "done"]
            /\ call' = [call EXCEPT ![p].op = "fundAccount", ![p].amount = amount,
                                    ![p].source = IF keep THEN src ELSE NoSource,
                                    ![p].code = "BAD_REQUEST",
                                    ![p].message = "validation"]
  /\ UNCHANGED <<accounts, transactions, now, sessions>>

FundStart(p) == FundStartWith(p, Amounts, FundingSources, FALSE)

FundStartInput(p) == FundStartWith(p, InputAmounts, InputSources, TRUE)

\* the status check left out
IsActiveAlways(account) == TRUE

\* account.status !== "active" is what the handler refuses
IsActive(account) == account.status = "active"

\* verify account belongs to user, and is active
FundCheck(p) ==
  /\ pc[p] = "f_check"
  /\ LET account == AccountOfUser(call[p].accountId, call[p].user)
     IN IF account = NoRow
        THEN Finish(p, "NOT_FOUND", "account_not_found")
        ELSE IF ~IsActive(account)
        THEN Finish(p, "BAD_REQUEST", "account_not_active")
        ELSE /\ pc' = [pc EXCEPT ![p] = "f_insert"]
             /\ call' = [call EXCEPT ![p].seen = account]
  /\ UNCHANGED <<accounts, transactions, now, sessions>>

\* create transaction
FundInsert(p) ==
  /\ pc[p] = "f_insert"
  /\ \/ /\ transactions' = Append(transactions,
              NewTransactionRow(call[p].accountId, call[p].amount))
        /\ pc' = [pc EXCEPT ![p] = "f_update"]
        /\ call' = [call EXCEPT ![p].insertedTx = Len(transactions) + 1]
     \/ \* the insert throws
        /\ Finish(p, "STORE_ERROR", "io_error")
        /\ UNCHANGED transactions
  /\ UNCHANGED <<accounts, now, sessions>>

\* update account balance
FundUpdate(p) ==
  /\ pc[p] = "f_update"
  /\ \/ /\ accounts' = IncrementBalance(call[p].accountId, call[p].seen.balance,
                                        call[p].amount)
        /\ pc' = [pc EXCEPT ![p] = "f_readacc"]
        /\ call' = [call EXCEPT ![p].incremented = TRUE]
     \/ \* the update throws
        /\ Finish(p, "STORE_ERROR", "io_error")
        /\ UNCHANGED accounts
  /\ UNCHANGED <<transactions, now, sessions>>

\* fetch the updated account
FundReadAccount(p) ==
  /\ pc[p] = "f_readacc"
  /\ \E row \in {AccountById(call[p].accountId), NoRow} :
       call' = [call EXCEPT ![p].account = row, ![p].readEmpty = (row = NoRow)]
  /\ pc' = [pc EXCEPT ![p] = "f_readtx"]
  /\ UNCHANGED <<accounts, transactions, now, sessions>>

\* fetch the most recent transaction and return
FundReadTransaction(p) ==
  /\ pc[p] = "f_readtx"
  /\ \E t \in MostRecent(call[p].accountId) :
       call' = [call EXCEPT ![p] =
          Returned([call[p] EXCEPT !.transaction = t,
                                   !.newBalance = BalanceOrZero(call[p].account),
                                   !.account = NoRow,
                                   !.code = "OK"])]
  /\ pc' = [pc EXCEPT ![p] = "done"]
  /\ UNCHANGED <<accounts, transactions, now, sessions>>

\* ---- the clock that new Date() reads ----
\* a tick is observable only through the createdAt of a transaction
Tick ==
  /\ \E t \in Rows(transactions) : t.createdAt = now
  /\ now' = now + 1
  /\ UNCHANGED <<accounts, transactions, pc, call, sessions>>

Next ==
  \/ \E p \in Procs : CreateStart(p)
  \/ \E p \in Procs : CreateCheck(p)
  \/ \E p \in Procs : CreateInsert(p)
  \/ \E p \in Procs : CreateRead(p)
  \/ \E p \in Procs : FundStart(p)
  \/ \E p \in Procs : FundCheck(p)
  \/ \E p \in Procs : FundInsert(p)
  \/ \E p \in Procs : FundUpdate(p)
  \/ \E p \in Procs : FundReadAccount(p)
  \/ \E p \in Procs : FundReadTransaction(p)
  \/ Tick

Spec == Init /\ [][Next]_vars

\* ---- getTransactions ----
\* every row of the log, whatever its account
TransactionsOfAccountUnfiltered(accountId) == Rows(transactions)

\* where transactions.accountId = accountId
TransactionsOfAccount(accountId) ==
  {t \in Rows(transactions) : t.accountId = accountId}

\* insertion order
ComesBeforeById(a, b) == a.id < b.id

\* orderBy(desc(createdAt), desc(id)): a is listed before b
ComesBefore(a, b) ==
  \/ a.createdAt > b.createdAt
  \/ a.createdAt = b.createdAt /\ a.id > b.id

RECURSIVE Ordered(_)
\* the rows of a set in the order of the query
Ordered(rows) ==
  IF rows = {} THEN <<>>
  ELSE LET first == CHOOSE a \in rows : \A b \in rows \ {a} : ComesBefore(a, b)
       IN <<first>> \o Ordered(rows \ {first})

\* accountTransactions.map(t => ({...t, accountType: account.accountType}))
Enriched(rows, account) ==
  [i \in 1..Len(rows) |->
     [id |-> rows[i].id, accountId |-> rows[i].accountId, type |-> rows[i].type,
      amount |-> rows[i].amount, status |-> rows[i].status,
      createdAt |-> rows[i].createdAt, accountType |-> account.accountType]]

\* the account looked up again for every row of the listing
ReadsOfListingPerRow(n) == 1 + n

\* store reads of the listing step: the one select of the transactions
ReadsOfListing(n) == 1

\* the ids a listing may ask for: those above, and the next id of the store,
\* which no account has yet
ListingIds == AccountIds \cup {Len(accounts) + 1}

GetStart(p) ==
  /\ MayStart(p)
  /\ \E u \in Users, id \in ListingIds :
       call' = [call EXCEPT ![p].op = "getTransactions", ![p].user = u,
                            ![p].accountId = id]
  /\ pc' = [pc EXCEPT ![p] = "g_check"]
  /\ UNCHANGED <<accounts, transactions, now, sessions>>

\* verify account belongs to user
GetCheck(p) ==
  /\ pc[p] = "g_check"
  /\ LET account == AccountOfUser(call[p].accountId, call[p].user)
         counted == [call[p] EXCEPT !.reads = @ + 1]
     IN IF account = NoRow
        THEN /\ pc' = [pc EXCEPT ![p] = "done"]
             /\ call' = [call EXCEPT ![p] =
                   Returned([counted EXCEPT !.code = "NOT_FOUND",
                                            !.message = "account_not_found"])]
        ELSE /\ pc' = [pc EXCEPT ![p] = "g_read"]
             /\ call' = [call EXCEPT ![p] = [counted EXCEPT !.seen = account]]
  /\ UNCHANGED <<accounts, transactions, now, sessions>>

\* select the transactions, merge the account type, return
GetRead(p) ==
  /\ pc[p] = "g_read"
  /\ LET rows == Ordered(TransactionsOfAccount(call[p].accountId))
     IN call' = [call EXCEPT ![p] =
          Returned([call[p] EXCEPT
             !.result = Enriched(rows, call[p].seen),
             !.reads = @ + ReadsOfListing(Len(rows)),
             !.code = "OK"])]
  /\ pc' = [pc EXCEPT ![p] = "done"]
  /\ UNCHANGED <<accounts, transactions, now, sessions>>

\* ---- the listing runs: deposits of 0.01 and getTransactions, on a store
\* that already holds two accounts and their first deposits ----
\* two owners with an account each; the first owner's two deposits were
\* concurrent and carry the same timestamp
SeedListingAccounts ==
  <<[SeedAccounts[1] EXCEPT !.balance = 2 * MinAmount],
    [id |-> 2, userId |-> 2, accountNumber |-> MinAccountNumber + NumCandidates + 1,
     accountType |-> "savings", balance |-> MinAmount, status |-> "active"]>>

SeedListingTransactions ==
  <<[id |-> 1, accountId |-> 1, type |-> "deposit", amount |-> MinAmount,
     status |-> "completed", createdAt |-> 0],
    [id |-> 2, accountId |-> 2, type |-> "deposit", amount |-> MinAmount,
     status |-> "completed", createdAt |-> 0],
    [id |-> 3, accountId |-> 1, type |-> "deposit", amount |-> MinAmount,
     status |-> "completed", createdAt |-> 0]>>

InitListing ==
  /\ accounts = SeedListingAccounts
  /\ transactions = SeedListingTransactions
  /\ now = 0
  /\ pc = [p \in Procs |-> "idle"]
  /\ call = [p \in Procs |-> IdleCall]
  /\ sessions = {}

FundStartListing(p) ==
  FundStartWith(p, {MinAmount},
                {src \in FundingSources : FundingSourceOk(src) /\ src.type = "card"},
                FALSE)

NextListing ==
  \/ \E p \in Procs : FundStartListing(p)
  \/ \E p \in Procs : FundCheck(p)
  \/ \E p \in Procs : FundInsert(p)
  \/ \E p \in Procs : FundUpdate(p)
  \/ \E p \in Procs : FundReadAccount(p)
  \/ \E p \in Procs : FundReadTransaction(p)
  \/ \E p \in Procs : GetStart(p)
  \/ \E p \in Procs : GetCheck(p)
  \/ \E p \in Procs : GetRead(p)
  \/ Tick

SpecListing == InitListing /\ [][NextListing]_vars

\* ---- generateAccountNumber, over the whole range ----
\* A number of up to 11 digits is a pair <<high, low>> of value
\* high * Limb + low, with 0 <= low < Limb.
Limb == 100000

BigLess(a, b) == a[1] < b[1] \/ (a[1] = b[1] /\ a[2] < b[2])

\* the arguments of crypto.randomInt: 1000000000 and 10000000000
RandomIntMin == <<MinAccountNumber \div Limb, MinAccountNumber % Limb>>
RandomIntMax == <<10 * (MinAccountNumber \div Limb), 0>>

\* the upper argument taken as a value that may be drawn
InRandomIntInclusive(n) == ~BigLess(n, RandomIntMin) /\ ~BigLess(RandomIntMax, n)

\* crypto.randomInt(min, max) returns n with min <= n < max
InRandomInt(n) == ~BigLess(n, RandomIntMin) /\ BigLess(n, RandomIntMax)

RECURSIVE DecimalDigits(_)
\* Number.prototype.toString of a non-negative integer
DecimalDigits(k) ==
  IF k < 10 THEN <<k>> ELSE DecimalDigits(k \div 10) \o <<k % 10>>

RECURSIVE ZeroPadded(_, _)
ZeroPadded(digits, width) ==
  IF Len(digits) >= width THEN digits ELSE ZeroPadded(<<0>> \o digits, width)

\* .toString() of a pair
BigToString(n) ==
  IF n[1] = 0 THEN DecimalDigits(n[2])
  ELSE DecimalDigits(n[1]) \o ZeroPadded(DecimalDigits(n[2]), 5)

\* numbers at and around both ends of the range, and some between
SampleNumbers ==
  {<<h, l>> : h \in {9999, 10000, 10001, 54321, 99999, 100000},
              l \in {0, 1, 12345, 99999}}

GenerateNumber(p) ==
  /\ MayStart(p)
  /\ \E n \in SampleNumbers :
       /\ InRandomInt(n)
       /\ call' = [call EXCEPT ![p].op = "generateAccountNumber",
                               ![p].text = BigToString(n), ![p].code = "OK"]
  /\ pc' = [pc EXCEPT ![p] = "done"]
  /\ UNCHANGED <<accounts, transactions, now, sessions>>

NextNumber == \E p \in Procs : GenerateNumber(p)

SpecNumber == Init /\ [][NextNumber]_vars

\* ---- sessions: login, logout, and the validation of a token ----
\* The clock counts milliseconds here.  A token is named by the request that
\* issued it; 0 stands for a request without a session cookie.
\* how long a new session lasts: the values around the expiry buffer
Lifetimes == {EXPIRY_BUFFER_MS - 1, EXPIRY_BUFFER_MS, EXPIRY_BUFFER_MS + 1}

\* the token of the session the user's signup created
SignupToken == NumProcs + 1

\* the tokens a request may carry: none, the signup's, or one a finished
\* login returned
IssuedTokens ==
  {SignupToken} \cup {q \in Procs : call[q].op = "login" /\ pc[q] = "done"}

SessionsOfToken(token) == {s \in sessions : s.token = token}

\* if (timeUntilExpiry > EXPIRY_BUFFER_MS)
NotExpired(timeUntilExpiry) == timeUntilExpiry > EXPIRY_BUFFER_MS

\* db.delete(sessions).where(eq(sessions.userId, user.id))
SessionsAfterInvalidation(u) == {s \in sessions : s.userId # u}

\* success whatever happened to the session
LogoutSuccessAlways(sessionDeleted, token) == TRUE

\* success: sessionDeleted || !token
LogoutSuccess(sessionDeleted, token) == sessionDeleted \/ token = 0

LogoutMessage(sessionDeleted, token) ==
  IF sessionDeleted THEN "logged_out"
  ELSE IF token = 0 THEN "no_active_session"
  ELSE "logout_failed"

LoginStart(p) ==
  /\ MayStart(p)
  /\ \E u \in Users, life \in Lifetimes :
       call' = [call EXCEPT ![p].op = "login", ![p].user = u, ![p].lifetime = life]
  /\ pc' = [pc EXCEPT ![p] = "l_delete"]
  /\ UNCHANGED <<accounts, transactions, now, sessions>>

\* invalidate the sessions the user holds
LoginDelete(p) ==
  /\ pc[p] = "l_delete"
  /\ sessions' = SessionsAfterInvalidation(call[p].user)
  /\ pc' = [pc EXCEPT ![p] = "l_insert"]
  /\ UNCHANGED <<accounts, transactions, now, call>>

\* create the new session and return its token
LoginInsert(p) ==
  /\ pc[p] = "l_insert"
  /\ sessions' = sessions \cup
       {[userId |-> call[p].user, token |-> p, expiresAt |-> now + call[p].lifetime]}
  /\ pc' = [pc EXCEPT ![p] = "done"]
  /\ call' = [call EXCEPT ![p].token = p, ![p].code = "OK"]
  /\ UNCHANGED <<accounts, transactions, now>>

LogoutEnd(p, sessionDeleted) ==
  /\ pc' = [pc EXCEPT ![p] = "done"]
  /\ call' = [call EXCEPT
        ![p].sessionDeleted = sessionDeleted,
        ![p].success = LogoutSuccess(sessionDeleted, call[p].token),
        ![p].message = LogoutMessage(sessionDeleted, call[p].token),
        ![p].code = "OK"]

\* a request without a token has nothing to delete
LogoutStart(p) ==
  /\ MayStart(p)
  /\ \E token \in {0} \cup IssuedTokens :
       IF token = 0
       THEN /\ pc' = [pc EXCEPT ![p] = "done"]
            /\ call' = [call EXCEPT
                  ![p].op = "logout",
                  ![p].success = LogoutSuccess(FALSE, 0),
                  ![p].message = LogoutMessage(FALSE, 0),
                  ![p].code = "OK"]
       ELSE /\ pc' = [pc EXCEPT ![p] = "o_check"]
            /\ call' = [call EXCEPT ![p].op = "logout", ![p].token = token]
  /\ UNCHANGED <<accounts, transactions, now, sessions>>

\* before deleting, check if the session exists; the write-up does not say
\* what the flag is when it does not, so either value
LogoutCheck(p) ==
  /\ pc[p] = "o_check"
  /\ IF SessionsOfToken(call[p].token) # {}
     THEN /\ pc' = [pc EXCEPT ![p] = "o_delete"]
          /\ call' = [call EXCEPT ![p].found = TRUE]
     ELSE \E flag \in BOOLEAN : LogoutEnd(p, flag)
  /\ UNCHANGED <<accounts, transactions, now, sessions>>

\* the deletion, which may fail; the cookie is cleared either way
LogoutDelete(p) ==
  /\ pc[p] = "o_delete"
  /\ \/ /\ sessions' = sessions \ SessionsOfToken(call[p].token)
        /\ pc' = [pc EXCEPT ![p] = "o_verify"]
        /\ UNCHANGED call
     \/ /\ LogoutEnd(p, FALSE)
        /\ UNCHANGED sessions
  /\ UNCHANGED <<accounts, transactions, now>>

\* after deleting, verify it is gone
LogoutVerify(p) ==
  /\ pc[p] = "o_verify"
  /\ LogoutEnd(p, SessionsOfToken(call[p].token) = {})
  /\ UNCHANGED <<accounts, transactions, now, sessions>>

\* the middleware of a protected call: look the session up and compare the
\* time left with the buffer
Validate(p) ==
  /\ MayStart(p)
  /\ \E token \in {0} \cup IssuedTokens :
       LET hits == SessionsOfToken(token)
           session == CHOOSE s \in hits : TRUE
           timeUntilExpiry == session.expiresAt - now
       IN IF hits # {} /\ NotExpired(timeUntilExpiry)
          THEN call' = [call EXCEPT ![p].op = "validate", ![p].token = token,
                           ![p].found = TRUE, ![p].remaining = timeUntilExpiry,
                           ![p].user = session.userId, ![p].code = "OK"]
          ELSE call' = [call EXCEPT ![p].op = "validate", ![p].token = token,
                           ![p].found = (hits # {}),
                           ![p].remaining = IF hits # {} THEN timeUntilExpiry ELSE 0,
                           ![p].code = "UNAUTHORIZED"]
  /\ pc' = [pc EXCEPT ![p] = "done"]
  /\ UNCHANGED <<accounts, transactions, now, sessions>>

\* a millisecond passes
Elapse ==
  /\ sessions # {}
  /\ now < MaxClock
  /\ now' = now + 1
  /\ UNCHANGED <<accounts, transactions, pc, call, sessions>>

NextSession ==
  \/ \E p \in Procs : LoginStart(p)
  \/ \E p \in Procs : LoginDelete(p)
  \/ \E p \in Procs : LoginInsert(p)
  \/ \E p \in Procs : LogoutStart(p)
  \/ \E p \in Procs : LogoutCheck(p)
  \/ \E p \in Procs : LogoutDelete(p)
  \/ \E p \in Procs : LogoutVerify(p)
  \/ \E p \in Procs : Validate(p)
  \/ Elapse

\* the first user has signed up, which gave them a session
InitSession ==
  /\ accounts = SeedAccounts
  /\ transactions = <<>>
  /\ now = 0
  /\ pc = [p \in Procs |-> "idle"]
  /\ call = [p \in Procs |-> IdleCall]
  /\ \E life \in Lifetimes :
       sessions = {[userId |-> 1, token |-> SignupToken, expiresAt |-> life]}

SpecSession == InitSession /\ [][NextSession]_vars

\* ---- the input runs: fundAccount alone, over the wide inputs, on a store
\* whose account is active or deactivated ----
InitInput ==
  /\ accounts \in {SeedAccounts, SeedDeactivated}
  /\ transactions = <<>>
  /\ now = 0
  /\ pc = [p \in Procs |-> "idle"]
  /\ call = [p \in Procs |-> IdleCall]
  /\ sessions = {}

NextInput ==
  \/ \E p \in InputProcs : FundStartInput(p)
  \/ \E p \in InputProcs : FundCheck(p)
  \/ \E p \in InputProcs : FundInsert(p)
  \/ \E p \in InputProcs : FundUpdate(p)
  \/ \E p \in InputProcs : FundReadAccount(p)
  \/ \E p \in InputProcs : FundReadTransaction(p)
  \/ Tick

SpecInput == InitInput /\ [][NextInput]_vars

\* ---- getAccounts ----
\* the whole table, whoever owns the rows
AccountsOfUserUnfiltered(u) == accounts

\* select ... from accounts where userId = u
AccountsOfUser(u) == SelectSeq(accounts, LAMBDA a : a.userId = u)

\* one read, returned as it is
GetAccounts(p) ==
  /\ MayStart(p)
  /\ \E u \in Users :
       call' = [call EXCEPT ![p].op = "getAccounts", ![p].user = u,
                            ![p].result = AccountsOfUser(u),
                            ![p].code = "OK"]
  /\ pc' = [pc EXCEPT ![p] = "done"]
  /\ UNCHANGED <<accounts, transactions, now, sessions>>

\* ---- the ledger runs: the four operations of the router together, on the
\* store of the listing runs; deposits of 0.01 and of -0.01 ----
FundStartLedger(p) ==
  FundStartWith(p, {-MinAmount, MinAmount},
                {src \in FundingSources : FundingSourceOk(src) /\ src.type = "card"},
                FALSE)

NextLedger ==
  \/ \E p \in LedgerProcs : CreateStart(p)
  \/ \E p \in LedgerProcs : CreateCheck(p)
  \/ \E p \in LedgerProcs : CreateInsert(p)
  \/ \E p \in LedgerProcs : CreateRead(p)
  \/ \E p \in LedgerProcs : GetAccounts(p)
  \/ \E p \in LedgerProcs : FundStartLedger(p)
  \/ \E p \in LedgerProcs : FundCheck(p)
  \/ \E p \in LedgerProcs : FundInsert(p)
  \/ \E p \in LedgerProcs : FundUpdate(p)
  \/ \E p \in LedgerProcs : FundReadAccount(p)
  \/ \E p \in LedgerProcs : FundReadTransaction(p)
  \/ \E p \in LedgerProcs : GetStart(p)
  \/ \E p \in LedgerProcs : GetCheck(p)
  \/ \E p \in LedgerProcs : GetRead(p)
  \/ Tick

SpecLedger == InitListing /\ [][NextLedger]_vars

\* ---- the funding form (components/FundingModal.tsx) ----
\* the decimal point, a character that is not a digit
Dot == 11

AllDigits(str) == \A i \in 1..Len(str) : str[i] < NonDigit

\* /^\d+\.?\d{0,2}$/
AmountPattern(str) ==
  \E i \in 1..Len(str) :
    /\ AllDigits(SubSeq(str, 1, i))
    /\ \E j \in {i, i + 1} :
         /\ j = i + 1 => (j <= Len(str) /\ str[j] = Dot)
         /\ Len(str) - j <= 2
         /\ AllDigits(SubSeq(str, j + 1, Len(str)))

\* /^(?:0|[1-9]\d*)(?:\.\d{0,2})?$/, the pattern the verification script tests
leadingZeroPattern(str) ==
  \E i \in 1..Len(str) :
    /\ AllDigits(SubSeq(str, 1, i))
    /\ i = 1 \/ str[1] # 0
    /\ \/ i = Len(str)
       \/ /\ str[i + 1] = Dot
          /\ Len(str) - (i + 1) <= 2
          /\ AllDigits(SubSeq(str, i + 2, Len(str)))

\* parseFloat of a text the amount pattern lets through, in thousandths
AmountOfText(str) ==
  LET whole == CHOOSE i \in 1..Len(str) :
                 /\ AllDigits(SubSeq(str, 1, i))
                 /\ i = Len(str) \/ str[i + 1] = Dot
      cents == SubSeq(str, whole + 2, Len(str))
  IN DecimalValue(SubSeq(str, 1, whole)) * 1000
     + (IF Len(cents) = 0 THEN 0
        ELSE IF Len(cents) = 1 THEN cents[1] * 100
        ELSE cents[1] * 100 + cents[2] * 10)

\* the amount field: required, pattern, min 0.0, max 10000
AmountFieldOk(str) ==
  /\ Len(str) > 0
  /\ AmountPattern(str)
  /\ AmountOfText(str) >= 0
  /\ AmountOfText(str) <= MaxAmount

\* the accountNumber field: required; /^\d{16}$/ and a first character 4 or
\* 5 for a card, /^\d+$/ for a bank account
NumberFieldOk(type, value) ==
  /\ Len(value) > 0
  /\ AllDigits(value)
  /\ type = "card" => (Len(value) = 16 /\ (value[1] = 4 \/ value[1] = 5))

\* the routingNumber field, shown for a bank account: required, /^\d{9}$/
RoutingFieldOk(type, value) ==
  type = "bank" => (Len(value) = 9 /\ AllDigits(value))

\* the fields handleSubmit reports an error for, in the order of the form
FieldErrors(amount, src) ==
  SelectSeq(<<"amount", "accountNumber", "routingNumber">>,
            LAMBDA f :
              \/ f = "amount" /\ ~AmountFieldOk(amount)
              \/ f = "accountNumber" /\ ~NumberFieldOk(src.type, src.accountNumber)
              \/ f = "routingNumber" /\ ~RoutingFieldOk(src.type, src.routingNumber))

\* ---- inputs of the validation runs ----
\* test numbers of the four networks, and the Luhn example 79927398713
CardBases ==
  {<<4,2,4,2,4,2,4,2,4,2,4,2,4,2,4,2>>, <<5,5,5,5,5,5,5,5,5,5,5,5,4,4,4,4>>,
   <<2,2,2,3,0,0,3,1,2,2,0,0,3,2,2,2>>, <<3,7,8,2,8,2,2,4,6,3,1,0,0,0,5>>,
   <<3,7,1,4,4,9,6,3,5,3,9,8,4,3,1>>, <<6,0,1,1,1,1,1,1,1,1,1,1,1,1,1,7>>,
   <<7,9,9,2,7,3,9,8,7,1,3>>}

\* card with its i-th character replaced by d
Substituted(card, i, d) == [card EXCEPT ![i] = d]

\* 4242-4242-4242-4242
DashedCard ==
  <<4,2,4,2,NonDigit,4,2,4,2,NonDigit,4,2,4,2,NonDigit,4,2,4,2>>

NoDigitCards == {<<>>, <<NonDigit>>, <<NonDigit, NonDigit, NonDigit>>}

LuhnInputs ==
  CardBases \cup NoDigitCards \cup {DashedCard}
  \cup UNION {{Substituted(c, i, d) : i \in 1..Len(c), d \in 0..9} :
                c \in CardBases}

\* prefixes at and around the ends of every range detectCardType tests
CardPrefixes ==
  {<<4>>, <<0,4>>, <<1>>, <<9>>, <<5,0>>, <<5,1>>, <<5,5>>, <<5,6>>,
   <<2,2,2,0>>, <<2,2,2,1>>, <<2,5,0,0>>, <<2,7,2,0>>, <<2,7,2,1>>,
   <<3,3>>, <<3,4>>, <<3,5>>, <<3,7>>, <<3,8>>,
   <<6,0,1,0>>, <<6,0,1,1>>, <<6,0,1,2>>,
   <<6,2,2,1,2,5>>, <<6,2,2,1,2,6>>, <<6,2,2,9,2,5>>, <<6,2,2,9,2,6>>,
   <<6,4,3>>, <<6,4,4>>, <<6,4,9>>, <<6,5>>, <<6,6>>}

\* prefix, followed by zeros up to n characters
Padded(prefix, n) ==
  prefix \o [i \in 1..(IF n > Len(prefix) THEN n - Len(prefix) ELSE 0) |-> 0]

CardTypeInputs ==
  CardBases \cup NoDigitCards \cup {DashedCard}
  \cup {Padded(pre, n) : pre \in CardPrefixes, n \in {0, 14, 15, 16}}
  \cup {<<NonDigit>> \o Padded(pre, 15) : pre \in CardPrefixes}

\* amounts typed into the form: 0, 0.05, 50, 123.45, 1000.00, 10000,
\* 10000.01, 00123.45, 001.50, 00, 01, 1., .5, 1.234, 1..2, 1a, -1, ., empty
AmountTexts ==
  {<<0>>, <<0,Dot,0,5>>, <<5,0>>, <<1,2,3,Dot,4,5>>, <<1,0,0,0,Dot,0,0>>,
   <<1,0,0,0,0>>, <<1,0,0,0,0,Dot,0,1>>,
   <<0,0,1,2,3,Dot,4,5>>, <<0,0,1,Dot,5,0>>, <<0,0>>, <<0,1>>,
   <<1,Dot>>, <<Dot,5>>, <<1,Dot,2,3,4>>, <<1,Dot,Dot,2>>, <<1,NonDigit>>,
   <<NonDigit,1>>, <<Dot>>, <<>>}

\* funding sources typed into the form: the card numbers above, each also
\* with its last digit changed, and the bank accounts of the input runs
FormSources ==
  {[type |-> "card", accountNumber |-> n, routingNumber |-> <<>>] :
     n \in CardBases \cup NoDigitCards \cup {DashedCard}
           \cup {Substituted(c, Len(c), (c[Len(c)] + 1) % 10) : c \in CardBases}}
  \cup {src \in InputSources : src.type = "bank"}

\* ---- the validation runs: the validators and the form, one call each ----
ValidationProcs == {1}

LuhnCheck(p) ==
  /\ MayStart(p)
  /\ \E card \in LuhnInputs :
       call' = [call EXCEPT ![p].op = "isValidLuhn", ![p].text = card,
                            ![p].success = isValidLuhn(card)]
  /\ pc' = [pc EXCEPT ![p] = "done"]
  /\ UNCHANGED <<accounts, transactions, now, sessions>>

CardTypeCheck(p) ==
  /\ MayStart(p)
  /\ \E card \in CardTypeInputs :
       call' = [call EXCEPT ![p].op = "isValidCardType", ![p].text = card,
                            ![p].result = <<detectCardType(card)>>,
                            ![p].success = isValidCardType(card)]
  /\ pc' = [pc EXCEPT ![p] = "done"]
  /\ UNCHANGED <<accounts, transactions, now, sessions>>

\* the script's test of its pattern
PatternTest(p) ==
  /\ MayStart(p)
  /\ \E amount \in AmountTexts :
       call' = [call EXCEPT ![p].op = "leadingZeroPattern",
                            ![p].text = amount,
                            ![p].success = leadingZeroPattern(amount)]
  /\ pc' = [pc EXCEPT ![p] = "done"]
  /\ UNCHANGED <<accounts, transactions, now, sessions>>

\* handleSubmit: the fields are validated, and onSubmit sends the mutation
\* with the parsed amount when none has an error
FormSubmit(p) ==
  /\ MayStart(p)
  /\ \E amount \in AmountTexts, src \in FormSources :
       LET errors == FieldErrors(amount, src)
       IN call' = [call EXCEPT ![p].op = "FundingModal",
                               ![p].text = amount, ![p].source = src,
                               ![p].result = errors,
                               ![p].success = (errors = <<>>),
                               ![p].amount = IF errors = <<>>
                                             THEN AmountOfText(amount) ELSE 0]
  /\ pc' = [pc EXCEPT ![p] = "done"]
  /\ UNCHANGED <<accounts, transactions, now, sessions>>

NextValidation ==
  \/ \E p \in ValidationProcs : LuhnCheck(p)
  \/ \E p \in ValidationProcs : CardTypeCheck(p)
  \/ \E p \in ValidationProcs : PatternTest(p)
  \/ \E p \in ValidationProcs : FormSubmit(p)

SpecValidation == Init /\ [][NextValidation]_vars

\* ---- properties ----
Creates == {p \in Procs : call[p].op = "createAccount"}
Funds == {p \in Procs : call[p].op = "fundAccount"}
Done(p) == pc[p] = "done"
TransactionsOf(id) == {t \in Rows(transactions) : t.accountId = id}

RECURSIVE SumAmounts(_)
SumAmounts(S) ==
  IF S = {} THEN 0
  ELSE LET p == CHOOSE q \in S : TRUE IN call[p].amount + SumAmounts(S \ {p})

\* fundAccount requests on account id that are between their writes and their return
FundingNow(id) ==
  {p \in Funds : call[p].accountId = id
                 /\ pc[p] \in {"f_update", "f_readacc", "f_readtx"}}
\* fundAccount requests on account id that a store error ended
FundingFailed(id) ==
  {p \in Funds : call[p].accountId = id /\ Done(p) /\ call[p].code = "STORE_ERROR"}
\* fundAccount requests on account id that returned a result
FundingSucceeded(id) ==
  {p \in Funds : call[p].accountId = id /\ Done(p) /\ call[p].code = "OK"}

\* C1: when every fundAccount call that wrote to an account has succeeded,
\* under any interleaving of their store steps the balance is the sum of
\* their amounts (accounts start at 0) and the account has one transaction
\* per call.
C1_NoLostUpdate ==
  \A a \in Rows(accounts) :
    (FundingNow(a.id) = {} /\ FundingFailed(a.id) = {}) =>
      /\ a.balance = SumAmounts(FundingSucceeded(a.id))
      /\ Cardinality(TransactionsOf(a.id)) = Cardinality(FundingSucceeded(a.id))

\* two calls on one account have both returned, and each read the balance
\* that holds both amounts: their writes preceded both reads
C1_Witness ==
  \E a \in Rows(accounts) : \E p, q \in FundingSucceeded(a.id) :
    /\ p # q
    /\ FundingNow(a.id) = {} /\ FundingFailed(a.id) = {}
    /\ call[p].newBalance = call[p].amount + call[q].amount
    /\ call[q].newBalance = call[p].amount + call[q].amount

\* C2: the accountNumber values of the persisted accounts are pairwise distinct.
C2_UniqueAccountNumber ==
  \A i, j \in 1..Len(accounts) :
    i # j => accounts[i].accountNumber # accounts[j].accountNumber

\* two calls have inserted accounts, the later one after a collision
C2_Witness ==
  /\ Len(accounts) = Len(SeedAccounts) + 2
  /\ \E p \in Creates : pc[p] = "c_read" /\ call[p].retries > 0

\* C3: at most one account record exists per (userId, accountType) pair,
\* also when createAccount calls of one owner and one type run concurrently.
C3_OnePerOwnerAndType ==
  \A i, j \in 1..Len(accounts) :
    i # j => ~(/\ accounts[i].userId = accounts[j].userId
               /\ accounts[i].accountType = accounts[j].accountType)

\* two calls of one owner and one type both passed the existence check; one
\* inserted, the other was refused by the store
C3_Witness ==
  \E p, q \in Creates :
    /\ p # q
    /\ call[p].user = call[q].user /\ call[p].accountType = call[q].accountType
    /\ call[p].insertedId # 0
    /\ call[q].pairCollided

\* C4: a fundAccount attempt that has ended left both of its writes or
\* neither: the transaction row and the balance increment go together.
C4_NoHalfAppliedFunding ==
  \A p \in Funds : Done(p) => ((call[p].insertedTx # 0) <=> call[p].incremented)

\* C5: a createAccount call gives up only at its 5th collision; an insert
\* that does not collide, after 0 to 4 collisions, ends the loop, and the
\* call then returns the account read back, with no trace of the collisions.
C5_SucceedsWithinRetryBudget ==
  [][\A p \in Procs :
       /\ (pc[p] = "c_insert" /\ pc'[p] = "done"
           /\ call'[p].message = "failed_to_generate_unique")
            => call[p].retries = 4
       /\ (pc[p] = "c_insert" /\ Len(accounts') > Len(accounts)
           /\ call'[p].insertedId = Len(accounts'))
            => (pc'[p] = "c_read" /\ call'[p].retries = call[p].retries
                /\ call[p].retries <= 4)
       /\ (pc[p] = "c_read" /\ pc'[p] = "done" /\ ~call'[p].readEmpty)
            => (call'[p].code = "OK" /\ call'[p].message = "none"
                /\ call'[p].account.id = call[p].insertedId
                /\ call'[p].retries = 0)
    ]_vars

\* the 5th attempt of a call has inserted, after 4 collisions
C5_Witness ==
  \E p \in Creates : pc[p] = "c_read" /\ call[p].retries = 4 /\ call[p].attempts = 5

\* C6: a createAccount call makes at most 5 insert attempts, every pass of
\* its loop uses one of them up, and a call that fails for want of a unique
\* number has inserted no account.
C6_AtMostFiveAttempts ==
  /\ [](\A p \in Procs :
          /\ call[p].attempts <= 5
          /\ call[p].retries <= 5
          /\ (Done(p) /\ call[p].message = "failed_to_generate_unique")
               => (call[p].code = "INTERNAL_SERVER_ERROR" /\ call[p].insertedId = 0
                   /\ call[p].account = NoRow))
  /\ [][\A p \in Procs :
          (pc[p] = "c_insert" /\ pc'[p] = "c_insert" /\ call'[p] # call[p])
            => (call'[p].attempts = call[p].attempts + 1
                /\ call'[p].retries = call[p].retries + 1)
       ]_vars

\* a call has failed after its 5th collision
C6_Witness ==
  \E p \in Creates : Done(p) /\ call[p].message = "failed_to_generate_unique"

\* C7: only a duplicate accountNumber is retried; a uniqueness violation on
\* another constraint ends the call at once with the store's error.
C7_OnlyNumberCollisionsRetried ==
  \A p \in Creates :
    call[p].pairCollided => (Done(p) /\ call[p].code = "STORE_ERROR")

\* C8: a createAccount call whose read after the insert came back empty
\* fails with an internal error and returns no account; an account that is
\* returned is the row of the store.
C8_NoFabricatedAccount ==
  \A p \in Creates : Done(p) =>
    /\ call[p].readEmpty =>
         (call[p].code = "INTERNAL_SERVER_ERROR" /\ call[p].account = NoRow)
    /\ call[p].code = "OK" =>
         (/\ call[p].account.id \in 1..Len(accounts)
          /\ [call[p].account EXCEPT !.balance = 0]
               = [accounts[call[p].account.id] EXCEPT !.balance = 0])
    /\ call[p].code # "OK" => call[p].account = NoRow

\* a call inserted its account and its read came back empty
C8_Witness ==
  \E p \in Creates : Done(p) /\ call[p].readEmpty /\ call[p].insertedId # 0

\* C9: a createAccount call whose existence check runs when the owner has
\* an account of the requested type ends with CONFLICT without an insert
\* attempt, and the accounts are unchanged.
C9_ConflictWithoutInsert ==
  [][\A p \in Procs :
       (pc[p] = "c_check" /\ pc'[p] # "c_check"
        /\ PairTaken(call[p].user, call[p].accountType))
         => (/\ pc'[p] = "done"
             /\ call'[p].code = "CONFLICT"
             /\ call'[p].attempts = 0 /\ call'[p].insertedId = 0
             /\ accounts' = accounts)
    ]_vars

\* a call was rejected with CONFLICT
C9_Witness ==
  \E p \in Creates : Done(p) /\ call[p].code = "CONFLICT"

\* C10 as stated: the record a successful createAccount returns is the row
\* this call inserted, with balance 0 and status active.
C10_ReturnsInsertedRowWithZeroBalance ==
  \A p \in Creates : (Done(p) /\ call[p].code = "OK") =>
    /\ call[p].account.id = call[p].insertedId
    /\ call[p].account.userId = call[p].user
    /\ call[p].account.accountType = call[p].accountType
    /\ call[p].account.accountNumber = accounts[call[p].insertedId].accountNumber
    /\ call[p].account.status = "active"
    /\ call[p].account.balance = 0

\* C10 amended: the record a successful createAccount returns is the row
\* this call inserted, as the store holds it at the read: status active,
\* and a balance that is 0 unless funding of the new account has begun, and
\* never more than the stored balance.
C10_ReturnsInsertedRow ==
  \A p \in Creates : (Done(p) /\ call[p].code = "OK") =>
    /\ call[p].account.id = call[p].insertedId
    /\ call[p].account.userId = call[p].user
    /\ call[p].account.accountType = call[p].accountType
    /\ call[p].account.accountNumber = accounts[call[p].insertedId].accountNumber
    /\ call[p].account.status = "active"
    /\ call[p].account.balance >= 0
    /\ call[p].account.balance <= accounts[call[p].insertedId].balance
    /\ TransactionsOf(call[p].insertedId) = {} => call[p].account.balance = 0

\* a call returned the account it inserted, funded before the read
C10_Witness ==
  \E p \in Creates : Done(p) /\ call[p].code = "OK" /\ call[p].account.balance > 0

\* ---- fundAccount: guards and input validation ----
\* fundAccount requests the input schema turned away
Rejected(p) ==
  Done(p) /\ call[p].code = "BAD_REQUEST" /\ call[p].message = "validation"
\* a request that wrote nothing
WroteNothing(p) == call[p].insertedTx = 0 /\ ~call[p].incremented
GoodCard == <<4,2,4,2,4,2,4,2,4,2,4,2,4,2,4,2>>
IsFinite(amount) == amount \notin {NaN, PosInfinity, NegInfinity}

\* C11: a fundAccount call whose ownership check finds that the account id
\* names no account, or names an account of another user, ends at that check
\* with the one response NOT_FOUND "Account not found", and the check leaves
\* all accounts and the transaction log as they were; such a call has written
\* nothing.
C11_ForeignAccountNotFound ==
  /\ [](\A p \in Funds : (Done(p) /\ call[p].code = "NOT_FOUND") =>
          /\ WroteNothing(p)
          /\ call[p].message = "account_not_found"
          /\ call[p].transaction = NoRow)
  /\ [][\A p \in Procs :
          (/\ pc[p] = "f_check"
           /\ pc'[p] # "f_check"
           /\ \/ AccountById(call[p].accountId) = NoRow
              \/ AccountById(call[p].accountId).userId # call[p].user)
          => /\ pc'[p] = "done"
             /\ call'[p].code = "NOT_FOUND"
             /\ call'[p].message = "account_not_found"
             /\ accounts' = accounts
             /\ transactions' = transactions]_vars

\* one call was refused on an id that names no account, another on an
\* account of another user, with the same response
C11_Witness ==
  \E p, q \in Funds :
    /\ Done(p) /\ call[p].code = "NOT_FOUND"
    /\ Done(q) /\ call[q].code = "NOT_FOUND"
    /\ AccountById(call[p].accountId) = NoRow
    /\ AccountById(call[q].accountId) # NoRow
    /\ AccountById(call[q].accountId).userId # call[q].user
    /\ call[p].message = call[q].message

\* C12: a fundAccount call on an account of the caller whose status is not
\* active ends at the status check with BAD_REQUEST "Account is not active",
\* the check writes nothing, and an account that is not active keeps its
\* balance and has no transaction.
C12_InactiveAccountRefused ==
  /\ [](/\ \A a \in Rows(accounts) :
            a.status # "active" => (a.balance = 0 /\ TransactionsOf(a.id) = {})
        /\ \A p \in Funds :
            (Done(p) /\ call[p].message = "account_not_active") =>
               (WroteNothing(p) /\ call[p].code = "BAD_REQUEST"))
  /\ [][\A p \in Procs :
          (/\ pc[p] = "f_check"
           /\ pc'[p] # "f_check"
           /\ AccountById(call[p].accountId) # NoRow
           /\ AccountById(call[p].accountId).userId = call[p].user
           /\ AccountById(call[p].accountId).status # "active")
          => /\ pc'[p] = "done"
             /\ call'[p].code = "BAD_REQUEST"
             /\ call'[p].message = "account_not_active"
             /\ accounts' = accounts
             /\ transactions' = transactions]_vars

\* the owner's call on the deactivated account was refused
C12_Witness ==
  \E p \in Funds :
    /\ Done(p) /\ call[p].message = "account_not_active"
    /\ call[p].user = 1 /\ call[p].accountId = 1
    /\ accounts[1].status = "inactive"

\* C13: a fundAccount call with an amount below 0.01, 0 among them, is
\* rejected by the input schema and writes nothing, so no transaction is
\* below 0.01; a call with exactly 0.01 and a good card is not rejected.
C13_BelowOneCentRejected ==
  /\ \A p \in Funds :
       /\ (call[p].amount # NaN /\ call[p].amount < MinAmount) =>
            (Rejected(p) /\ WroteNothing(p))
       /\ (call[p].amount = MinAmount /\ call[p].source.type = "card"
           /\ call[p].source.accountNumber = GoodCard) => ~Rejected(p)
  /\ \A t \in Rows(transactions) : t.amount >= MinAmount

\* a call with amount 0 was rejected and a call with exactly 0.01 deposited it
C13_Witness ==
  \E p, q \in Funds :
    /\ call[p].amount = 0 /\ Rejected(p)
    /\ call[q].amount = MinAmount /\ Done(q) /\ call[q].code = "OK"
    /\ \E t \in Rows(transactions) : t.id = call[q].insertedTx /\ t.amount = MinAmount

\* C14: a fundAccount call whose amount is not positive or not finite (NaN,
\* Infinity, -Infinity) writes nothing: every transaction amount is positive
\* and finite and every balance is finite.
C14_NonFiniteNeverWritten ==
  /\ \A p \in Funds :
       (~IsFinite(call[p].amount) \/ call[p].amount <= 0) => WroteNothing(p)
  /\ \A t \in Rows(transactions) : IsFinite(t.amount) /\ t.amount > 0
  /\ \A a \in Rows(accounts) : IsFinite(a.balance)

\* C15: no fundAccount call with an amount above 10000 succeeds or reaches
\* the store writes.
C15_NothingAboveMaximum ==
  /\ \A p \in Funds :
       call[p].amount > MaxAmount => (WroteNothing(p) /\ call[p].code # "OK")
  /\ \A t \in Rows(transactions) : t.amount <= MaxAmount

\* C16: every transaction amount and every stored balance is a whole number
\* of cents.
C16_WholeCents ==
  /\ \A t \in Rows(transactions) : t.amount % MinAmount = 0
  /\ \A a \in Rows(accounts) : a.balance % MinAmount = 0

\* C17: a fundAccount call funded from a card writes to the store only if
\* the card number passes the Luhn check and detectCardType knows its prefix.
C17_CardNeedsLuhnAndNetwork ==
  \A p \in Funds :
    (call[p].source.type = "card"
     /\ ~(isValidLuhn(call[p].source.accountNumber)
          /\ isValidCardType(call[p].source.accountNumber)))
    => WroteNothing(p)

\* C18: a fundAccount call funded from a bank whose routing number is absent
\* or is not exactly 9 digits is rejected by the input schema and writes
\* nothing; a call funded from a good card without a routing number is not
\* rejected.
C18_BankNeedsRoutingNumber ==
  \A p \in Funds :
    /\ (call[p].source.type = "bank"
        /\ ~(/\ Len(call[p].source.routingNumber) = 9
             /\ \A i \in 1..Len(call[p].source.routingNumber) :
                   call[p].source.routingNumber[i] \in 0..9))
       => (Rejected(p) /\ WroteNothing(p))
    /\ (call[p].source.type = "card" /\ call[p].source.accountNumber = GoodCard
        /\ call[p].source.routingNumber = <<>> /\ AmountOk(call[p].amount))
       => ~Rejected(p)

\* a bank call with a routing number of 8 digits was rejected, and a card
\* call without a routing number made its deposit
C18_Witness ==
  \E p, q \in Funds :
    /\ call[p].source.type = "bank" /\ Len(call[p].source.routingNumber) = 8
    /\ Rejected(p)
    /\ call[q].source.type = "card" /\ call[q].source.routingNumber = <<>>
    /\ Done(q) /\ call[q].code = "OK" /\ call[q].insertedTx # 0

\* C19: the transaction a successful fundAccount call returns is the one this
\* call inserted.
C19_ReturnsOwnTransaction ==
  \A p \in Funds : (Done(p) /\ call[p].code = "OK") =>
    call[p].transaction.id = call[p].insertedTx

\* C20: a fundAccount call whose read of the account after the writes came
\* back empty does not succeed: it ends with INTERNAL_SERVER_ERROR.
C20_EmptyReadIsInternalError ==
  \A p \in Funds : (Done(p) /\ call[p].readEmpty) =>
    (call[p].code = "INTERNAL_SERVER_ERROR" /\ call[p].newBalance = 0
     /\ call[p].transaction = NoRow)

\* ---- getTransactions ----
Gets == {p \in Procs : call[p].op = "getTransactions"}
\* a returned transaction without its annotation
Plain(r) ==
  [id |-> r.id, accountId |-> r.accountId, type |-> r.type, amount |-> r.amount,
   status |-> r.status, createdAt |-> r.createdAt]
Listed(p) == {call[p].result[i] : i \in 1..Len(call[p].result)}

\* C21: in the list a getTransactions call returns, of any two transactions
\* the earlier one in the list has the later createdAt, or the same createdAt
\* and the higher id.
C21_NewestFirstThenHighestId ==
  \A p \in Gets : \A i, j \in 1..Len(call[p].result) :
    i < j =>
      \/ call[p].result[i].createdAt > call[p].result[j].createdAt
      \/ /\ call[p].result[i].createdAt = call[p].result[j].createdAt
         /\ call[p].result[i].id > call[p].result[j].id

\* a call returned three transactions, the first with a later createdAt than
\* the second, the second and third with the same createdAt
C21_Witness ==
  \E p \in Gets :
    /\ Done(p) /\ Len(call[p].result) = 3
    /\ call[p].result[1].createdAt > call[p].result[2].createdAt
    /\ call[p].result[2].createdAt = call[p].result[3].createdAt

\* C22: the list a getTransactions call returns for an account of the caller
\* holds, once each, exactly the transactions the log has for that account
\* when the call reads it, each with the accountType of that account.
C22_AllAndOnlyOwnTransactions ==
  [][\A p \in Procs :
       (pc[p] = "g_read" /\ pc'[p] = "done") =>
         /\ call'[p].code = "OK"
         /\ {Plain(r) : r \in Listed(p)'} =
              {t \in Rows(transactions) : t.accountId = call[p].accountId}
         /\ Len(call'[p].result) = Cardinality(Listed(p)')
         /\ \A r \in Listed(p)' :
              r.accountType = AccountById(call[p].accountId).accountType
    ]_vars

\* a call returned the transactions of one account while the log also held
\* a transaction of another
C22_Witness ==
  \E p \in Gets :
    /\ Done(p) /\ call[p].code = "OK" /\ Len(call[p].result) >= 2
    /\ \E t \in Rows(transactions) : t.accountId # call[p].accountId

\* C23: a getTransactions call on an account id that names no account, or
\* names an account of another user, ends with the one response NOT_FOUND
\* "Account not found" and returns no transaction.
C23_ForeignListingNotFound ==
  \A p \in Gets :
    (/\ Done(p)
     /\ \/ AccountById(call[p].accountId) = NoRow
        \/ AccountById(call[p].accountId).userId # call[p].user)
    => /\ call[p].code = "NOT_FOUND"
       /\ call[p].message = "account_not_found"
       /\ call[p].result = <<>>

\* one call was refused on the account of another user, which has
\* transactions, another on an id that names no account, with the same
\* response
C23_Witness ==
  \E p, q \in Gets :
    /\ Done(p) /\ call[p].code = "NOT_FOUND"
    /\ AccountById(call[p].accountId) # NoRow
    /\ AccountById(call[p].accountId).userId # call[p].user
    /\ TransactionsOf(call[p].accountId) # {}
    /\ Done(q) /\ call[q].code = "NOT_FOUND"
    /\ AccountById(call[q].accountId) = NoRow
    /\ call[p].message = call[q].message /\ call[p].result = call[q].result

\* C30: a getTransactions call never makes more than 2 store reads, a call
\* that returns a list has made exactly 2 whatever the length of the list,
\* and every returned transaction carries the accountType of the account row
\* read by the ownership check.
C30_TwoReadsPerListing ==
  /\ [](\A p \in Gets :
          /\ call[p].reads <= 2
          /\ (Done(p) /\ call[p].code = "OK") => call[p].reads = 2)
  /\ [][\A p \in Procs :
          (pc[p] = "g_read" /\ pc'[p] = "done") =>
            /\ call[p].reads = 1
            /\ call'[p].reads = 2
            /\ \A r \in Listed(p)' : r.accountType = call[p].seen.accountType
       ]_vars

\* a call returned 3 transactions after 2 reads
C30_Witness ==
  \E p \in Gets : Done(p) /\ Len(call[p].result) = 3 /\ call[p].reads = 2

\* ---- sessions ----
Logins == {p \in Procs : call[p].op = "login"}
Logouts == {p \in Procs : call[p].op = "logout"}
Validations == {p \in Procs : call[p].op = "validate"}
Quiescent == \A p \in Procs : pc[p] \in {"idle", "done"}

\* C24: a validation accepts a token exactly when a session with that token
\* is in the store and at least 60 seconds remain before its expiry: with
\* less than 60 seconds the caller is unauthenticated, with exactly 60
\* seconds or more the session is not expired.
C24_ExpiredBelowSixtySeconds ==
  \A p \in Validations :
    call[p].code = "OK" <=> (call[p].found /\ call[p].remaining >= EXPIRY_BUFFER_MS)

\* C25: when no request is in progress, no user has more than one session.
C25_OneSessionPerUser ==
  Quiescent =>
    \A s, t \in sessions : s.userId = t.userId => s = t

\* C26: a logout that reports success carried no token, or its last look at
\* the store found no session with its token; and after a logout has
\* reported success the store has no session with its token.
C26_LogoutSuccessIsVerified ==
  \A p \in Logouts :
    (Done(p) /\ call[p].success) =>
      /\ call[p].token = 0 \/ call[p].sessionDeleted
      /\ call[p].token # 0 => SessionsOfToken(call[p].token) = {}

\* one logout deleted its session and reported success, another could not
\* delete and reported failure
C26_Witness ==
  \E p, q \in Logouts :
    /\ Done(p) /\ call[p].found /\ call[p].success
    /\ Done(q) /\ call[q].found /\ ~call[q].success

\* ---- createAccount: error kinds, the range of numbers, collisions ----
\* C27: the code of the error a createAccount call ends with when its retries
\* are used up differs from the code of the error for an empty read after
\* the insert, from the code of CONFLICT and from the code of a validation
\* error.
C27_ExhaustionKindIsDistinct ==
  \A p \in Creates, q \in Procs :
    (/\ Done(p) /\ call[p].message = "failed_to_generate_unique"
     /\ Done(q)
     /\ call[q].message \in {"failed_to_retrieve", "already_have_account", "validation"})
    => call[p].code # call[q].code

Generated == {p \in Procs : call[p].op = "generateAccountNumber"}

\* C28: every string generateAccountNumber returns has exactly 10 characters,
\* all of them decimal digits, and its value is at least 1000000000 and at
\* most 9999999999.
C28_TenDigitsInRange ==
  \A p \in Generated :
    LET text == call[p].text
        value == <<DecimalValue(SubSeq(text, 1, Len(text) - 5)),
                   DecimalValue(SubSeq(text, Len(text) - 4, Len(text)))>>
    IN /\ Len(text) = 10
       /\ \A i \in 1..Len(text) : text[i] \in 0..9
       /\ ~BigLess(value, <<10000, 0>>)
       /\ ~BigLess(<<99999, 99999>>, value)

\* both ends of the range were returned: 1000000000 and 9999999999
C28_Witness ==
  \E p, q \in Generated :
    /\ call[p].text = <<1,0,0,0,0,0,0,0,0,0>>
    /\ call[q].text = <<9,9,9,9,9,9,9,9,9,9>>

\* C29: no account number is held by two accounts, so createAccount calls of
\* different owners that inserted have different numbers; an insert attempt
\* of a call either adds an account with a number no account had, or, on a
\* collision, adds nothing and is counted as a retry, after which the call
\* draws again unless it was its 5th, or ends with the store's error.
C29_CollisionResolvedByRetry ==
  /\ [](/\ \A a, b \in Rows(accounts) :
             a.id # b.id => a.accountNumber # b.accountNumber
        /\ \A p, q \in Creates :
             (call[p].user # call[q].user /\ call[p].insertedId # 0
              /\ call[q].insertedId # 0)
             => accounts[call[p].insertedId].accountNumber
                  # accounts[call[q].insertedId].accountNumber)
  /\ [][\A p \in Procs :
          (pc[p] = "c_insert" /\ (pc'[p] # pc[p] \/ call'[p] # call[p])) =>
            \/ /\ pc'[p] = "c_read"
               /\ Len(accounts') = Len(accounts) + 1
               /\ call'[p].insertedId = Len(accounts')
               /\ \A a \in Rows(accounts) :
                    a.accountNumber # accounts'[Len(accounts')].accountNumber
            \/ /\ pc'[p] = "c_insert"
               /\ accounts' = accounts
               /\ call'[p].retries = call[p].retries + 1
               /\ call'[p].retries < MAX_RETRIES
               /\ accounts # <<>>
            \/ /\ pc'[p] = "done"
               /\ accounts' = accounts
               /\ \/ call'[p].message = "failed_to_generate_unique"
                     /\ call[p].retries = MAX_RETRIES - 1
                  \/ call'[p].message = "io_error"
       ]_vars

\* two owners hold accounts of different numbers, the second inserted after
\* a collision on the number
C29_Witness ==
  \E p, q \in Creates :
    /\ call[p].user # call[q].user
    /\ Done(p) /\ call[p].code = "OK"
    /\ pc[q] = "c_read" /\ call[q].retries >= 1 /\ ~call[q].pairCollided
    /\ accounts[call[p].insertedId].accountNumber
         # accounts[call[q].insertedId].accountNumber

\* ---- the ledger ----
AccountLists == {p \in Procs : call[p].op = "getAccounts"}

\* C31: every account balance is non-negative in every reachable state, and
\* no step of createAccount, getAccounts, fundAccount or getTransactions
\* lowers the balance of an account.
C31_BalancesNeverDecrease ==
  /\ [](\A a \in Rows(accounts) : a.balance >= 0)
  /\ [][\A a \in Rows(accounts) : \A b \in Rows(accounts') :
          a.id = b.id => b.balance >= a.balance]_vars

\* a deposit has raised a balance, and a deposit of -0.01 has been turned away
C31_Witness ==
  \E p, q \in Funds :
    /\ call[p].incremented
    /\ AccountById(call[p].accountId).balance
         > SeedListingAccounts[call[p].accountId].balance
    /\ call[q].amount = -MinAmount /\ Done(q) /\ call[q].code = "BAD_REQUEST"

\* C32: no step changes or removes an account that exists, but for its
\* balance, and no step changes or removes a transaction that exists: rows
\* are appended to the two tables and balances are incremented, nothing else.
C32_RecordsAreImmutable ==
  [][/\ \A i \in 1..Len(accounts) :
          /\ i <= Len(accounts')
          /\ accounts'[i] = [accounts[i] EXCEPT !.balance = accounts'[i].balance]
     /\ \A i \in 1..Len(transactions) :
          /\ i <= Len(transactions')
          /\ transactions'[i] = transactions[i]]_vars

\* an account and a transaction have been appended and a balance incremented
C32_Witness ==
  /\ Len(accounts) > Len(SeedListingAccounts)
  /\ Len(transactions) > Len(SeedListingTransactions)
  /\ \E p \in Funds : call[p].incremented

RECURSIVE SumOfTransactions(_, _)
\* the sum of the amounts of the first n transactions that belong to account id
SumOfTransactions(id, n) ==
  IF n = 0 THEN 0
  ELSE SumOfTransactions(id, n - 1)
       + (IF transactions[n].accountId = id THEN transactions[n].amount ELSE 0)

\* C34: in every state in which no fundAccount call is in progress, the
\* balance of each account is the sum of the amounts of its transactions.
C34_BalanceIsSumOfTransactions ==
  (\A p \in Funds : Done(p)) =>
    \A a \in Rows(accounts) :
      a.balance = SumOfTransactions(a.id, Len(transactions))

\* C35: a fundAccount call that succeeds appends one transaction, of the
\* funded account, of type deposit and status completed, and changes the
\* balance of the funded account and of no other: each of its steps leaves
\* every other balance and every existing transaction as it was.
C35_FundingTouchesOneAccount ==
  /\ [](\A p \in Funds :
          (Done(p) /\ call[p].code = "OK") =>
             /\ call[p].incremented
             /\ call[p].insertedTx \in 1..Len(transactions)
             /\ transactions[call[p].insertedTx].accountId = call[p].accountId)
  /\ [][\A p \in Procs :
          (pc'[p] # pc[p] /\ call'[p].op = "fundAccount") =>
             /\ \A i \in 1..Len(accounts) :
                  accounts[i].id # call'[p].accountId => accounts'[i] = accounts[i]
             /\ Len(accounts') = Len(accounts)
             /\ IF call'[p].insertedTx # call[p].insertedTx
                THEN /\ accounts' = accounts
                     /\ Len(transactions') = Len(transactions) + 1
                     /\ SubSeq(transactions', 1, Len(transactions)) = transactions
                     /\ LET t == transactions'[Len(transactions')]
                        IN /\ call'[p].insertedTx = t.id
                           /\ t.accountId = call'[p].accountId
                           /\ t.type = "deposit"
                           /\ t.status = "completed"
                           /\ t.amount = call'[p].amount
                ELSE transactions' = transactions]_vars

\* a call on the first account has returned, its deposit is in the balance
\* of that account, and the second account holds what it held
C35_Witness ==
  \E p \in Funds :
    /\ Done(p) /\ call[p].code = "OK" /\ call[p].accountId = 1
    /\ accounts[1].balance > SeedListingAccounts[1].balance
    /\ accounts[2].balance = SeedListingAccounts[2].balance
    /\ Len(transactions) = Len(SeedListingTransactions) + 1

\* C36: getAccounts returns the accounts of the caller, all of them and none
\* of another user, and changes nothing in the store.
C36_OwnAccountsOnly ==
  [][\A p \in Procs :
       (call'[p].op = "getAccounts" /\ call[p].op # "getAccounts") =>
          /\ Rows(call'[p].result)
               = {a \in Rows(accounts) : a.userId = call'[p].user}
          /\ Len(call'[p].result) = Cardinality(Rows(call'[p].result))
          /\ UNCHANGED <<accounts, transactions, sessions>>]_vars

\* a user who holds two accounts, one of them created in this run, has been
\* given both, while another user holds an account too
C36_Witness ==
  \E p \in AccountLists :
    /\ Len(call[p].result) = 2
    /\ \E a \in Rows(accounts) : a.userId # call[p].user

\* ---- the validators ----
LuhnChecks == {p \in Procs : call[p].op = "isValidLuhn"}
CardTypeChecks == {p \in Procs : call[p].op = "isValidCardType"}
FormSubmits == {p \in Procs : call[p].op = "FundingModal"}

\* the sum of the decimal digits of n
RECURSIVE DigitSum(_)
DigitSum(n) == IF n < 10 THEN n ELSE (n % 10) + DigitSum(n \div 10)

\* the Luhn checksum: counting from the right, the digits at the even
\* places are doubled, and the decimal digits of all the numbers are added
RECURSIVE LuhnChecksum(_)
LuhnChecksum(digits) ==
  IF Len(digits) = 0 THEN 0
  ELSE IF Len(digits) = 1 THEN digits[1]
  ELSE LuhnChecksum(SubSeq(digits, 1, Len(digits) - 2))
       + DigitSum(2 * digits[Len(digits) - 1]) + digits[Len(digits)]

\* C33: isValidLuhn returns true exactly when the Luhn checksum of the digits
\* of the number is a multiple of 10; a number it accepts is rejected once
\* any one of its digits is replaced by a different digit.
C33_LuhnChecksumDecides ==
  \A p \in LuhnChecks :
    LET card == call[p].text
    IN /\ call[p].success <=> (LuhnChecksum(DigitsOf(card)) % 10 = 0)
       /\ call[p].success =>
            \A i \in 1..Len(card) : \A d \in 0..9 :
              (card[i] < NonDigit /\ d # card[i]) =>
                ~isValidLuhn(Substituted(card, i, d))

\* the check has accepted a card number of 16 digits, and their dashes
C33_Witness ==
  \E p \in LuhnChecks :
    /\ call[p].success
    /\ call[p].text = DashedCard
    /\ Len(DigitsOf(call[p].text)) = 16

\* C37: a card number that holds no digit, being empty or made of other
\* characters, is not accepted: a fundAccount call that carries it as its
\* card is rejected by the Luhn check and writes nothing.
C37_CardWithoutDigitsRejected ==
  \A p \in Funds :
    (call[p].source.type = "card"
     /\ DigitsOf(call[p].source.accountNumber) = <<>>) =>
       WroteNothing(p)

\* the network the prefix of the digits stands for, range by range
NetworkOf(digits) ==
  LET starts(lo, hi) == \E k \in lo..hi : StartsWith(digits, DecimalDigits(k))
  IN IF starts(4, 4) THEN "visa"
     ELSE IF starts(51, 55) \/ starts(2221, 2720) THEN "mastercard"
     ELSE IF starts(34, 34) \/ starts(37, 37)
          THEN IF Len(digits) = 15 THEN "amex" ELSE "null"
     ELSE IF starts(6011, 6011) \/ starts(622126, 622925)
             \/ starts(644, 649) \/ starts(65, 65) THEN "discover"
     ELSE "null"

\* C38: the card number field of the funding form accepts every card number
\* of 15 or 16 digits that belongs to a recognized network and passes the
\* Luhn check, and reports an error, so that nothing is submitted, for a
\* number that fails the Luhn check.
C38_FormChecksNetworkAndLuhn ==
  \A p \in FormSubmits :
    LET number == call[p].source.accountNumber
    IN call[p].source.type = "card" =>
         /\ (/\ AllDigits(number) /\ Len(number) \in {15, 16}
             /\ isValidCardType(number) /\ isValidLuhn(number))
              => "accountNumber" \notin Rows(call[p].result)
         /\ ~isValidLuhn(number) =>
              ("accountNumber" \in Rows(call[p].result) /\ ~call[p].success)

\* C39: the amount field of the funding form reports an error for an amount
\* written with leading zeros (00123.45, 001.50, 00, 01) and none for 0,
\* 0.05, 50, 123.45 and 1000.00.
C39_FormRejectsLeadingZeros ==
  \A p \in FormSubmits :
    LET amount == call[p].text
    IN /\ (Len(amount) > 1 /\ amount[1] = 0 /\ amount[2] < NonDigit)
            => "amount" \in Rows(call[p].result)
       /\ amount \in {<<0>>, <<0,Dot,0,5>>, <<5,0>>, <<1,2,3,Dot,4,5>>,
                      <<1,0,0,0,Dot,0,0>>}
            => "amount" \notin Rows(call[p].result)

\* C40: detectCardType tells the network from the prefix of the digits:
\* visa for 4; mastercard for 51 to 55 and 2221 to 2720; amex for 34 and 37
\* when there are 15 digits; discover for 6011, 622126 to 622925, 644 to 649
\* and 65; null otherwise.  isValidCardType is true when it is not null.
C40_NetworkByPrefix ==
  \A p \in CardTypeChecks :
    /\ call[p].result = <<NetworkOf(DigitsOf(call[p].text))>>
    /\ call[p].success <=> (call[p].result # <<"null">>)

\* a number of 16 digits under the first prefix of the upper mastercard
\* range has been classified
C40_Witness ==
  \E p \in CardTypeChecks :
    /\ call[p].text = Padded(<<2,2,2,1>>, 16)
    /\ call[p].result = <<"mastercard">>
    /\ call[p].success
====
